---------------------------- MODULE Spec2Model ----------------------------
(***************************************************************************)
(* Model of the property resolution engine of ga-multi-mcp                 *)
(* (src/src/ga_multi_mcp/property_resolver.py) over the property list      *)
(* built by GAClient.discover_properties (src/src/ga_multi_mcp/            *)
(* ga_client.py).                                                          *)
(*                                                                         *)
(* Strings are sequences of one-character strings.  Scores are exact       *)
(* rationals [n, d] in lowest terms (Python computes them as doubles).     *)
(***************************************************************************)
EXTENDS Integers, Sequences, FiniteSets, TLC

(***************************************************************************)
(* Characters and the str methods the code uses.                           *)
(***************************************************************************)
UpperChars == <<"A", "B", "C", "D", "E", "F", "G", "H", "I", "J", "K", "L", "M",
                "N", "O", "P", "Q", "R", "S", "T", "U", "V", "W", "X", "Y", "Z">>

LowerChars == <<"a", "b", "c", "d", "e", "f", "g", "h", "i", "j", "k", "l", "m",
                "n", "o", "p", "q", "r", "s", "t", "u", "v", "w", "x", "y", "z">>

DigitChars == {"0", "1", "2", "3", "4", "5", "6", "7", "8", "9"}

WhitespaceChars == {" "}

Range(s) == {s[i] : i \in DOMAIN s}

AlnumChars == Range(UpperChars) \cup Range(LowerChars) \cup DigitChars

\* str.isalnum() of one character
IsAlnum(c) == c \in AlnumChars

ToLower ==
    [c \in Range(UpperChars) |->
        LowerChars[CHOOSE i \in DOMAIN UpperChars : UpperChars[i] = c]]

\* str.lower() of one character
LowerChar(c) == IF c \in DOMAIN ToLower THEN ToLower[c] ELSE c

\* str.lower()
Lower(s) == [i \in DOMAIN s |-> LowerChar(s[i])]

\* str.strip(): leading and trailing whitespace removed
Strip(s) ==
    LET keep == {i \in DOMAIN s : s[i] \notin WhitespaceChars}
    IN  IF keep = {} THEN <<>>
        ELSE SubSeq(s, CHOOSE i \in keep : \A j \in keep : i <= j,
                       CHOOSE i \in keep : \A j \in keep : j <= i)

\* "".join(c for c in s if c.isalnum())
AlnumOnly(s) == SelectSeq(s, IsAlnum)

\* s[:n]
Truncate(s, n) == IF Len(s) <= n THEN s ELSE SubSeq(s, 1, n)

\* a in b   (substring test on strings)
IsSubstring(a, b) ==
    \E i \in 0..(Len(b) - Len(a)) : SubSeq(b, i + 1, i + Len(a)) = a

Max2(x, y) == IF x >= y THEN x ELSE y

(***************************************************************************)
(* Exact rationals for the float scores.                                   *)
(***************************************************************************)
RECURSIVE GCD(_, _)
GCD(x, y) == IF y = 0 THEN x ELSE GCD(y, x % y)

Rat(n, d) == LET g == GCD(n, d) IN [n |-> n \div g, d |-> d \div g]

RAdd(x, y) == Rat(x.n * y.d + y.n * x.d, x.d * y.d)
RMul(x, y) == Rat(x.n * y.n, x.d * y.d)
RGt(x, y) == x.n * y.d > y.n * x.d
RLt(x, y) == RGt(y, x)
RGe(x, y) == ~RLt(x, y)
RMax(x, y) == IF RGt(y, x) THEN y ELSE x

One == Rat(1, 1)

(***************************************************************************)
(* difflib.SequenceMatcher(None, a, b).ratio() without junk (the autojunk  *)
(* heuristic needs 200 or more characters).                                *)
(***************************************************************************)
\* length of the common run of a from i and b from j
RECURSIVE RunLen(_, _, _, _)
RunLen(a, b, i, j) ==
    IF i > Len(a) \/ j > Len(b) \/ a[i] # b[j] THEN 0
    ELSE 1 + RunLen(a, b, i + 1, j + 1)

\* the places where a common run of a and b begins
RunStarts(a, b) ==
    {p \in (DOMAIN a) \X (DOMAIN b) :
        /\ a[p[1]] = b[p[2]]
        /\ p[1] = 1 \/ p[2] = 1 \/ a[p[1] - 1] # b[p[2] - 1]}

\* the maximal common runs as blocks (i, j, k): a[i..i+k-1] = b[j..j+k-1]
Runs(a, b) ==
    {[i |-> p[1], j |-> p[2], k |-> RunLen(a, b, p[1], p[2])] : p \in RunStarts(a, b)}

\* m is as long as n, or as long and no later in a, then in b
Precedes(m, n) ==
    \/ m.k > n.k
    \/ m.k = n.k /\ (m.i < n.i \/ (m.i = n.i /\ m.j <= n.j))

LongestOf(runs) == CHOOSE m \in runs : \A n \in runs : Precedes(m, n)

\* find_longest_match: the longest block, the earliest in a and then in b
FindLongestMatch(a, b) == LongestOf(Runs(a, b))

\* get_matching_blocks: total size of the blocks left and right of the longest one
RECURSIVE MatchingSize(_, _)
MatchingSize(a, b) ==
    IF Range(a) \cap Range(b) = {} THEN 0
    ELSE LET m == FindLongestMatch(a, b)
         IN  m.k
             + MatchingSize(SubSeq(a, 1, m.i - 1), SubSeq(b, 1, m.j - 1))
             + MatchingSize(SubSeq(a, m.i + m.k, Len(a)),
                            SubSeq(b, m.j + m.k, Len(b)))

\* ratio(): 2.0 * matches / length, and 1.0 for two empty strings
Ratio(a, b) ==
    IF Len(a) + Len(b) = 0 THEN One
    ELSE Rat(2 * MatchingSize(a, b), Len(a) + Len(b))


(***************************************************************************)
(* Optional values: None is the empty tuple, Some(x) the one-tuple.        *)
(***************************************************************************)
None == <<>>
Some(x) == <<x>>

(***************************************************************************)
(* GAClient.discover_properties: the GAProperty built from one entry       *)
(* [id, display_name] of the Admin API listing.  account_id and            *)
(* website_url are carried by the code and read by nothing modelled here.  *)
(***************************************************************************)
NameMaxLen == 30

GAProperty(entry) ==
    [id           |-> entry.id,
     name         |-> Truncate(AlnumOnly(Lower(entry.display_name)), NameMaxLen),
     display_name |-> entry.display_name]

BuildProperties(listing) == [i \in DOMAIN listing |-> GAProperty(listing[i])]

(***************************************************************************)
(* PropertyResolver.resolve, stage by stage.  A call's outcome is          *)
(* [raised, value]: the exception that left the call ("none" when it       *)
(* returned) and the value returned.                                       *)
(***************************************************************************)
Returned(v) == [raised |-> "none", value |-> v]
Raised(e) == [raised |-> e, value |-> None]

PropertyMatch(prop, confidence, matched_on) ==
    [property |-> prop, confidence |-> confidence, matched_on |-> matched_on]

\* query.lower().strip()
QueryLower(query) == Strip(Lower(query))

\* variant: the query keeps its punctuation and blanks
QueryCleanKeepsPunctuation(query) == QueryLower(query)

\* "".join(c for c in query_lower if c.isalnum())
QueryClean(query) == AlnumOnly(QueryLower(query))

\* "".join(c for c in prop.display_name.lower() if c.isalnum())
DisplayClean(prop) == AlnumOnly(Lower(prop.display_name))

\* variant: the loop keeps the last record that satisfies its test
LastIndex(hits) == IF hits = {} THEN 0 ELSE CHOOSE i \in hits : \A j \in hits : i >= j

\* the first index of props whose record satisfies the loop's test, 0 if none
FirstIndex(hits) == IF hits = {} THEN 0 ELSE CHOOSE i \in hits : \A j \in hits : i <= j

\* 1. for prop in props: if prop.id == query
ExactIdHits(props, query) == {i \in DOMAIN props : props[i].id = query}

\* variant: an empty canonical query is never looked up by name
ExactNameHitsNonEmpty(props, query_clean) ==
    {i \in DOMAIN props : props[i].name = query_clean /\ query_clean # <<>>}

\* 2. for prop in props: if prop.name == query_clean
ExactNameHits(props, query_clean) == {i \in DOMAIN props : props[i].name = query_clean}

\* 3. for prop in props: if prop.display_name.lower() == query_lower
DisplayNameHits(props, query_lower) ==
    {i \in DOMAIN props : Lower(props[i].display_name) = query_lower}

\* variant: if query_lower in aliases
AliasListedVerbatim(entry, query_lower) ==
    \E k \in DOMAIN entry.aliases : entry.aliases[k] = query_lower

\* 4. if query_lower in [a.lower() for a in aliases]
AliasListed(entry, query_lower) ==
    \E k \in DOMAIN entry.aliases : Lower(entry.aliases[k]) = query_lower

\*    if prop.name == prop_name or prop.display_name.lower() == prop_name.lower()
AliasOwnerHits(props, entry) ==
    {i \in DOMAIN props :
        \/ props[i].name = entry.key
        \/ Lower(props[i].display_name) = Lower(entry.key)}

\*    "for a in aliases": the value of the entry is a list (of strings); a value
\*    that is no list, such as a number, has no field aliases
Iterable(entry) == "aliases" \in DOMAIN entry

\*    the entries of custom_aliases whose value cannot be iterated
NotIterable(aliases) == {e \in DOMAIN aliases : ~Iterable(aliases[e])}

\*    the entries of custom_aliases, in dict order, whose inner loop returns
AliasHits(props, aliases, query_lower) ==
    {e \in DOMAIN aliases :
        /\ Iterable(aliases[e])
        /\ AliasListed(aliases[e], query_lower)
        /\ AliasOwnerHits(props, aliases[e]) # {}}

\*    the loop comes to an entry it cannot iterate before it returns
AliasLoopRaises(props, aliases, query_lower) ==
    /\ NotIterable(aliases) # {}
    /\ \/ AliasHits(props, aliases, query_lower) = {}
       \/ FirstIndex(NotIterable(aliases))
             < FirstIndex(AliasHits(props, aliases, query_lower))

PartialFloor == Rat(3, 10)
PartialBaseHigh == Rat(9, 10)

PartialBase == Rat(7, 10)
PartialScale == Rat(3, 10)

\* variant: if best_match is None or score >= best_match[1]
ImproveOnTie(best, prop, score, tag) ==
    IF best = None \/ RGe(score, best[1].confidence)
    THEN Some(PropertyMatch(prop, score, tag))
    ELSE best

\* if best_match is None or score > best_match[1]: best_match = (prop, score, tag)
Improve(best, prop, score, tag) ==
    IF best = None \/ RGt(score, best[1].confidence)
    THEN Some(PropertyMatch(prop, score, tag))
    ELSE best

\* if score > self.fuzzy_threshold: (the update above)
ImproveAbove(best, prop, score, threshold, tag) ==
    IF RGt(score, threshold) THEN Improve(best, prop, score, tag) ELSE best

\* name_score, then display_score
SimilaritySteps(best, prop, threshold, query_clean, display_clean) ==
    ImproveAbove(
        ImproveAbove(best, prop, Ratio(query_clean, prop.name), threshold, "fuzzy_name"),
        prop, Ratio(query_clean, display_clean), threshold, "fuzzy_display")

\* if partial_score > 0.3: effective_score = 0.7 + (partial_score * 0.3)
PartialUpdate(best, prop, partial_score) ==
    IF RGt(partial_score, PartialFloor)
    THEN Improve(best, prop, RAdd(PartialBase, RMul(partial_score, PartialScale)),
                 "partial")
    ELSE best

\* if query_clean in prop.name or query_clean in display_clean:
\*     partial_score = len(query_clean) / max(len(prop.name), len(display_clean))
PartialStep(best, prop, query_clean, display_clean) ==
    IF ~(IsSubstring(query_clean, prop.name) \/ IsSubstring(query_clean, display_clean))
    THEN [raised |-> "none", best |-> best]
    ELSE IF Max2(Len(prop.name), Len(display_clean)) = 0
    THEN [raised |-> "ZeroDivisionError", best |-> best]
    ELSE [raised |-> "none",
          best |-> PartialUpdate(best, prop,
                       Rat(Len(query_clean),
                           Max2(Len(prop.name), Len(display_clean))))]

\* 5. one iteration of the fuzzy loop over prop, from best_match to best_match
FuzzyStep(st, prop, threshold, query_clean) ==
    IF st.raised # "none" THEN st
    ELSE PartialStep(
             SimilaritySteps(st.best, prop, threshold, query_clean, DisplayClean(prop)),
             prop, query_clean, DisplayClean(prop))

RECURSIVE FuzzyLoop(_, _, _, _, _)
FuzzyLoop(st, props, i, threshold, query_clean) ==
    IF i > Len(props) THEN st
    ELSE FuzzyLoop(FuzzyStep(st, props[i], threshold, query_clean),
                   props, i + 1, threshold, query_clean)

FuzzyOutcome(st) == IF st.raised # "none" THEN Raised(st.raised) ELSE Returned(st.best)

FuzzyStage(props, threshold, query_clean) ==
    FuzzyOutcome(FuzzyLoop([raised |-> "none", best |-> None], props, 1,
                           threshold, query_clean))

AliasStage(props, threshold, aliases, query_lower, query_clean) ==
    IF AliasLoopRaises(props, aliases, query_lower)
    THEN Raised("TypeError")
    ELSE IF AliasHits(props, aliases, query_lower) # {}
    THEN Returned(Some(PropertyMatch(
             props[FirstIndex(AliasOwnerHits(props,
                       aliases[FirstIndex(AliasHits(props, aliases, query_lower))]))],
             One, "alias")))
    ELSE FuzzyStage(props, threshold, query_clean)

DisplayNameStage(props, threshold, aliases, query_lower, query_clean) ==
    IF DisplayNameHits(props, query_lower) # {}
    THEN Returned(Some(PropertyMatch(props[FirstIndex(DisplayNameHits(props, query_lower))],
                                     One, "display_name")))
    ELSE AliasStage(props, threshold, aliases, query_lower, query_clean)

\* variant: stage 2 compares the names with query_lower
ExactNameUncleaned(props, threshold, aliases, query_lower, query_clean) ==
    IF ExactNameHits(props, query_lower) # {}
    THEN Returned(Some(PropertyMatch(props[FirstIndex(ExactNameHits(props, query_lower))],
                                     One, "exact_name")))
    ELSE DisplayNameStage(props, threshold, aliases, query_lower, query_clean)

ExactNameStage(props, threshold, aliases, query_lower, query_clean) ==
    IF ExactNameHits(props, query_clean) # {}
    THEN Returned(Some(PropertyMatch(props[FirstIndex(ExactNameHits(props, query_clean))],
                                     One, "exact_name")))
    ELSE DisplayNameStage(props, threshold, aliases, query_lower, query_clean)

\* variant: stage 2 runs before stage 1
ExactIdAfterName(props, threshold, aliases, query, query_lower, query_clean) ==
    IF ExactNameHits(props, query_clean) # {}
    THEN Returned(Some(PropertyMatch(props[FirstIndex(ExactNameHits(props, query_clean))],
                                     One, "exact_name")))
    ELSE IF ExactIdHits(props, query) # {}
    THEN Returned(Some(PropertyMatch(props[FirstIndex(ExactIdHits(props, query))],
                                     One, "exact_id")))
    ELSE DisplayNameStage(props, threshold, aliases, query_lower, query_clean)

ExactIdStage(props, threshold, aliases, query, query_lower, query_clean) ==
    IF ExactIdHits(props, query) # {}
    THEN Returned(Some(PropertyMatch(props[FirstIndex(ExactIdHits(props, query))],
                                     One, "exact_id")))
    ELSE ExactNameStage(props, threshold, aliases, query_lower, query_clean)

\* resolve after _ensure_properties_loaded: props is self._properties
ResolveIn(props, threshold, aliases, query) ==
    IF props = <<>> THEN Returned(None)
    ELSE ExactIdStage(props, threshold, aliases, query,
                      QueryLower(query), QueryClean(query))

(***************************************************************************)
(* PropertyResolver.search.                                                *)
(***************************************************************************)
SearchFloorAtThreshold == Rat(3, 5)

SearchFloor == Rat(3, 10)

SearchExactByName(prop, query, query_clean) == prop.name = query_clean

\* the loop's test for an exact match: prop.id == query or prop.name == query_clean
SearchExact(prop, query, query_clean) == prop.id = query \/ prop.name = query_clean

\* best_score = max(name_score, display_score)
SimilarityScore(prop, query_clean, display_clean) ==
    RMax(Ratio(query_clean, prop.name), Ratio(query_clean, display_clean))

\* partial_score = 0.7 + (len(query_clean) / max(len(prop.name), len(display_clean), 1)) * 0.3
ContainmentScore(prop, query_clean, display_clean) ==
    RAdd(PartialBase,
         RMul(Rat(Len(query_clean),
                  Max2(Max2(Len(prop.name), Len(display_clean)), 1)),
              PartialScale))

\* variant: the containment score is left out
BestScoreWithoutContainment(prop, query_clean, display_clean) ==
    SimilarityScore(prop, query_clean, display_clean)

\* if query_clean in prop.name or query_clean in display_clean:
\*     best_score = max(best_score, partial_score)
BestScoreOf(prop, query_clean, display_clean) ==
    IF IsSubstring(query_clean, prop.name) \/ IsSubstring(query_clean, display_clean)
    THEN RMax(SimilarityScore(prop, query_clean, display_clean),
              ContainmentScore(prop, query_clean, display_clean))
    ELSE SimilarityScore(prop, query_clean, display_clean)

\* best_score of a record that is no exact match
BestScore(prop, query_clean) == BestScoreOf(prop, query_clean, DisplayClean(prop))

\* if best_score > 0.3: matches.append(...)
AppendScored(matches, prop, best_score) ==
    IF RGt(best_score, SearchFloor)
    THEN Append(matches,
                PropertyMatch(prop, best_score,
                              IF RLt(best_score, One) THEN "fuzzy" ELSE "exact"))
    ELSE matches

\* one iteration of the loop: matches after prop has been looked at
SearchStep(matches, prop, query, query_clean) ==
    IF SearchExact(prop, query, query_clean)
    THEN Append(matches, PropertyMatch(prop, One, "exact"))
    ELSE AppendScored(matches, prop, BestScore(prop, query_clean))

RECURSIVE SearchLoop(_, _, _, _, _)
SearchLoop(matches, props, i, query, query_clean) ==
    IF i > Len(props) THEN matches
    ELSE SearchLoop(SearchStep(matches, props[i], query, query_clean),
                    props, i + 1, query, query_clean)

\* variant: a sort that puts a record before the records of equal confidence
RECURSIVE InsertBeforeTies(_, _)
InsertBeforeTies(sorted, m) ==
    IF sorted = <<>> THEN <<m>>
    ELSE IF RGt(Head(sorted).confidence, m.confidence)
         THEN <<Head(sorted)>> \o InsertBeforeTies(Tail(sorted), m)
         ELSE <<m>> \o sorted

\* list.sort(key=lambda m: m.confidence, reverse=True): stable, descending
RECURSIVE InsertByConfidence(_, _)
InsertByConfidence(sorted, m) ==
    IF sorted = <<>> THEN <<m>>
    ELSE IF RGe(Head(sorted).confidence, m.confidence)
         THEN <<Head(sorted)>> \o InsertByConfidence(Tail(sorted), m)
         ELSE <<m>> \o sorted

RECURSIVE SortByConfidence(_)
SortByConfidence(matches) ==
    IF matches = <<>> THEN <<>>
    ELSE InsertByConfidence(SortByConfidence(SubSeq(matches, 1, Len(matches) - 1)),
                            matches[Len(matches)])

\* matches[:max_results]
SliceTo(matches, max_results) ==
    LET stop == IF max_results >= 0 THEN max_results
                ELSE Max2(Len(matches) + max_results, 0)
    IN  IF stop >= Len(matches) THEN matches ELSE SubSeq(matches, 1, stop)

\* search after _ensure_properties_loaded: props is self._properties
SearchIn(props, query, max_results) ==
    IF props = <<>> THEN Returned(<<>>)
    ELSE Returned(SliceTo(SortByConfidence(
                              SearchLoop(<<>>, props, 1, query, QueryClean(query))),
                          max_results))

(***************************************************************************)
(* Inputs.  The display names the Admin API lists, the queries a caller    *)
(* sends, the thresholds and alias tables of the configuration.            *)
(***************************************************************************)
MaxProps == 2
MaxResultsBound == 2

\* a display name one character longer than a canonical name may be
LongChars == <<"d", "f", "j", "k", "q", "u", "v", "w", "x", "0", "4", "5", "6", "7", "8", "9">>
LongName == [i \in 1..(NameMaxLen + 1) |-> LongChars[((i - 1) % Len(LongChars)) + 1]]

DisplayNames ==
    { <<>>,
      <<"2", "2", "2">>,
      <<"M", "y", " ", "S", "i", "t", "e">>,
      <<"A", "c", "m", "e", " ", "B", "l", "o", "g">>,
      <<"A", "c", "m", "e", " ", "S", "h", "o", "p">>,
      LongName }

TextQueries ==
    { <<"-">>,
      <<"m", "e">>,
      <<"a", "c", "m", "e">>,
      <<"a", "c", "m", "e", " ", "b", "l", "o", "g">>,
      <<"m", "y", "-", "s", "i", "t", "e">>,
      <<"m", "a", "i", "n", " ">>,
      <<"P", "r", "i", "m", "a", "r", "y", " ", "S", "i", "t", "e">>,
      <<"p", "r", "i", "m", "a", "r", "y", "s", "i", "t", "e">>,
      <<"z", "z">>,
      LongName,
      LongName \o <<"x">> }

DefaultThreshold == Rat(3, 5)

Thresholds == {Rat(0, 1), Rat(1, 2), DefaultThreshold, Rat(1, 1)}

MySiteAliases ==
    [key |-> <<"m", "y", "s", "i", "t", "e">>,
     aliases |-> << <<"p", "r", "i", "m", "a", "r", "y", " ", "s", "i", "t", "e">>,
                    <<"m", "a", "i", "n">> >>]

AcmeAliases ==
    [key |-> <<"A", "C", "M", "E", " ", "B", "L", "O", "G">>,
     aliases |-> << <<"M", "a", "i", "n">> >>]

AcmeShopAliases ==
    [key |-> <<"A", "c", "m", "e", "S", "h", "o", "p">>,
     aliases |-> << <<"m", "a", "i", "n">> >>]

AliasTables ==
    { <<>>,
      <<MySiteAliases>>,
      <<AcmeAliases, MySiteAliases>>,
      <<AcmeShopAliases, MySiteAliases>> }

\* the configurations: every threshold without aliases, and every alias table
\* under the default threshold
Configs ==
    {[fuzzy_threshold |-> t, custom_aliases |-> <<>>] : t \in Thresholds}
    \cup {[fuzzy_threshold |-> DefaultThreshold, custom_aliases |-> a] : a \in AliasTables}

\* the id the listing gives its k-th property
IdChars == <<"1", "2", "3", "4", "5", "6", "7", "8", "9">>
PropertyId(k) == <<IdChars[k], IdChars[k], IdChars[k]>>

RECURSIVE SeqsOfLen(_, _)
SeqsOfLen(S, n) ==
    IF n = 0 THEN {<<>>}
    ELSE {Append(s, x) : s \in SeqsOfLen(S, n - 1), x \in S}

\* the listings: up to MaxProps properties with the ids 111, 222, ... (the Admin
\* API names every property once) and any display names
Listings ==
    UNION {{[k \in 1..n |-> [id |-> PropertyId(k), display_name |-> names[k]]] :
               names \in SeqsOfLen(DisplayNames, n)} : n \in 0..MaxProps}

\* the queries: the texts above and the id of every property a listing may hold
Queries == TextQueries \cup {PropertyId(k) : k \in 1..MaxProps}

(***************************************************************************)
(* The client's cache: a dict from key to CacheEntry, modelled as a        *)
(* function from the keys present to [data, expires_at].  Times are whole  *)
(* seconds; the time t of an operation is the clock reading it takes.      *)
(***************************************************************************)
CacheEntry(data, expires_at) == [data |-> data, expires_at |-> expires_at]

IsValidOrAtExpiry(entry, t) == t <= entry.expires_at

\* CacheEntry.is_valid
IsValid(entry, t) == t < entry.expires_at

EmptyCache == [k \in {} |-> CacheEntry(<<>>, 0)]

\* del self._cache[key], for each of the keys
Without(c, keys) == [k \in DOMAIN c \ keys |-> c[k]]

\* self._cache[key] = entry
With(c, key, entry) ==
    [k \in DOMAIN c \cup {key} |-> IF k = key THEN entry ELSE c[k]]

GetCachedKeepsExpired(c, key, t) ==
    IF key \in DOMAIN c /\ IsValid(c[key], t)
    THEN [cache |-> c, value |-> Some(c[key].data)]
    ELSE [cache |-> c, value |-> None]

\* GAClient._get_cached: the cache it leaves and the value it returns
GetCached(c, key, t) ==
    IF key \in DOMAIN c
    THEN IF IsValid(c[key], t)
         THEN [cache |-> c, value |-> Some(c[key].data)]
         ELSE [cache |-> Without(c, {key}), value |-> None]
    ELSE [cache |-> c, value |-> None]

\* ttl = ttl or self.cache_ttl
TtlOr(ttl, configured) ==
    IF ttl = None \/ ttl[1] = 0 THEN configured ELSE ttl[1]

\* GAClient._set_cached
SetCached(c, key, data, ttl, configured, t) ==
    With(c, key, CacheEntry(data, t + TtlOr(ttl, configured)))

ClearedKeysByPrefix(c, pattern) ==
    IF pattern = None
    THEN DOMAIN c
    ELSE {k \in DOMAIN c :
            /\ Len(pattern[1]) <= Len(k)
            /\ SubSeq(k, 1, Len(pattern[1])) = pattern[1]}

\* GAClient.clear_cache: keys_to_remove, or every key without a pattern
ClearedKeys(c, pattern) ==
    IF pattern = None
    THEN DOMAIN c
    ELSE {k \in DOMAIN c : IsSubstring(pattern[1], k)}

\* GAClient.clear_cache: the cache it leaves and the count it returns
ClearCache(c, pattern) ==
    [cache |-> Without(c, ClearedKeys(c, pattern)),
     count |-> Cardinality(ClearedKeys(c, pattern))]

ValidKeysAtExpiry(c, t) == {k \in DOMAIN c : IsValidOrAtExpiry(c[k], t)}

\* GAClient.get_cache_stats: the keys counted as valid
ValidKeys(c, t) == {k \in DOMAIN c : IsValid(c[k], t)}

\* GAClient.get_cache_stats
CacheStats(c, t) ==
    [total_entries |-> Cardinality(DOMAIN c),
     valid_entries |-> Cardinality(ValidKeys(c, t)),
     expired_entries |-> Cardinality(DOMAIN c) - Cardinality(ValidKeys(c, t)),
     cache_keys |-> DOMAIN c]

PropertiesKey == <<"p", "r", "o", "p", "e", "r", "t", "i", "e", "s">>

\* discover_properties: "if cached := self._get_cached(cache_key)"
CacheHit(got) == got.value # None /\ got.value[1] # <<>>

\* discover_properties after its cache lookup: the cached list, or the list
\* built from the listing the Admin API returns, stored under the property TTL
DiscoverAfter(got, t, listing, configured, property_ttl) ==
    IF CacheHit(got)
    THEN [cache |-> got.cache, value |-> got.value[1], fetched |-> FALSE]
    ELSE [cache |-> SetCached(got.cache, PropertiesKey, BuildProperties(listing),
                              Some(property_ttl), configured, t),
          value |-> BuildProperties(listing),
          fetched |-> TRUE]

\* GAClient.discover_properties
DiscoverProperties(c, t, listing, configured, property_ttl) ==
    DiscoverAfter(GetCached(c, PropertiesKey, t), t, listing, configured,
                  property_ttl)

(***************************************************************************)
(* The resolver and its client: their state, their construction and their  *)
(* operations.  op tells which operation was performed last, query,        *)
(* max_results and arg hold its arguments and result its outcome.          *)
(***************************************************************************)
VARIABLES
    directory,           \* the listing the Admin API returns
    properties,          \* PropertyResolver._properties: None, or Some(list)
    fuzzy_threshold,     \* PropertyResolver.fuzzy_threshold
    custom_aliases,      \* PropertyResolver.custom_aliases, in dict order
    query,               \* the query the caller sends
    op,                  \* the operation performed last, "none" before any
    max_results,         \* the max_results of a search call
    result,              \* the outcome of the call
    cache,               \* GAClient._cache
    now,                 \* the clock, in seconds
    cache_ttl,           \* GAClient.cache_ttl
    property_cache_ttl,  \* GAClient.property_cache_ttl
    remote_calls,        \* the number of directory fetches from the Admin API
    arg,                 \* the arguments of a cache operation (and the entry a get found)
    in_flight            \* the calls suspended in the directory fetch

vars == <<directory, properties, fuzzy_threshold, custom_aliases,
          query, op, max_results, result,
          cache, now, cache_ttl, property_cache_ttl, remote_calls, arg,
          in_flight>>

resolver_config == <<fuzzy_threshold, custom_aliases>>

client_config == <<cache_ttl, property_cache_ttl>>

Zero == Rat(0, 1)

\* PropertyResolver.__init__: "argument or configured value"
ThresholdOr(arg_threshold, configured) ==
    IF arg_threshold = None \/ arg_threshold[1] = Zero
    THEN configured
    ELSE arg_threshold[1]

AliasesOr(arg_aliases, configured) ==
    IF arg_aliases = None \/ arg_aliases[1] = <<>>
    THEN configured
    ELSE arg_aliases[1]

\* Config: cache_ttl and property_cache_ttl when the environment sets neither
DefaultCacheTtl == 300

DefaultPropertyCacheTtl == 3600

\* GAClient.__init__ and PropertyResolver.__init__ over a configuration
Constructed(config, ttl, property_ttl) ==
    /\ properties = None
    /\ fuzzy_threshold = ThresholdOr(None, config.fuzzy_threshold)
    /\ custom_aliases = AliasesOr(None, config.custom_aliases)
    /\ cache = EmptyCache
    /\ cache_ttl = ttl
    /\ property_cache_ttl = property_ttl
    /\ now = 0
    /\ remote_calls = 0
    /\ op = "none"
    /\ max_results = 0
    /\ result = Returned(None)
    /\ arg = <<>>
    /\ in_flight = {}

\* get_property_resolver() over get_ga_client(), with the default TTLs
Init ==
    /\ directory \in Listings
    /\ query \in Queries
    /\ \E config \in Configs :
          Constructed(config, DefaultCacheTtl, DefaultPropertyCacheTtl)

EnsureLoadedWhenEmpty(props, c, t, listing, configured, property_ttl) ==
    IF props = None \/ props[1] = <<>>
    THEN DiscoverProperties(c, t, listing, configured, property_ttl)
    ELSE [cache |-> c, value |-> props[1], fetched |-> FALSE]

\* _ensure_properties_loaded: the snapshot and the cache it leaves, and whether
\* the Admin API was asked
EnsureLoaded(props, c, t, listing, configured, property_ttl) ==
    IF props = None
    THEN DiscoverProperties(c, t, listing, configured, property_ttl)
    ELSE [cache |-> c, value |-> props[1], fetched |-> FALSE]

Loaded ==
    EnsureLoaded(properties, cache, now, directory, cache_ttl,
                 property_cache_ttl)

\* the number of requests a behaviour makes is kept finite
MaxFetches == 2

\* the part every resolver call shares: self._ensure_properties_loaded()
Load ==
    /\ Loaded.fetched => remote_calls < MaxFetches
    /\ properties' = Some(Loaded.value)
    /\ cache' = Loaded.cache
    /\ remote_calls' = IF Loaded.fetched THEN remote_calls + 1 ELSE remote_calls
    /\ arg' = <<>>
    /\ UNCHANGED in_flight
    /\ UNCHANGED <<directory, resolver_config, client_config, now>>

\* PropertyResolver.resolve(q)
ResolveCall(q) ==
    /\ Load
    /\ result' = ResolveIn(properties'[1], fuzzy_threshold, custom_aliases, q)
    /\ op' = "resolve"
    /\ query' = q
    /\ UNCHANGED max_results

\* PropertyResolver.search(q, m)
SearchCall(q, m) ==
    /\ Load
    /\ result' = SearchIn(properties'[1], q, m)
    /\ op' = "search"
    /\ query' = q
    /\ max_results' = m

\* PropertyResolver.list_all()
ListAllCall ==
    /\ Load
    /\ result' = Returned(properties'[1])
    /\ op' = "list_all"
    /\ UNCHANGED <<query, max_results>>

(***************************************************************************)
(* One call on a freshly constructed resolver: the call loads the snapshot *)
(* and answers from it.                                                    *)
(***************************************************************************)
Resolve == op = "none" /\ ResolveCall(query)

Search(m) == op = "none" /\ SearchCall(query, m)

ListAll == op = "none" /\ ListAllCall

Next ==
    \/ Resolve
    \/ \E m \in 0..MaxResultsBound : Search(m)
    \/ ListAll

Spec == Init /\ [][Next]_vars

(***************************************************************************)
(* The cache on its own: any sequence of _set_cached, _get_cached,         *)
(* clear_cache and get_cache_stats calls on a constructed client, and the  *)
(* passing of time between them.                                           *)
(***************************************************************************)
\* the clock stops at MaxTime
MaxTime == 2

DefaultConfig == [fuzzy_threshold |-> DefaultThreshold, custom_aliases |-> <<>>]

\* GA_CACHE_TTL and GA_PROPERTY_CACHE_TTL: Config.from_env accepts every integer
CacheTtls == {2}

PropertyCacheTtls == {0, 1}

\* f"metadata:{property_id}"
MetadataKey(property_id) ==
    <<"m", "e", "t", "a", "d", "a", "t", "a", ":">> \o property_id

CacheKeys == {PropertiesKey, MetadataKey(PropertyId(1))}

\* the values stored: the empty list and a list of one property
CacheData ==
    {BuildProperties(<<>>),
     BuildProperties(<<[id |-> PropertyId(1),
                        display_name |-> <<"M", "y", " ", "S", "i", "t", "e">>]>>)}

\* the ttl argument of _set_cached: omitted, 0 or 1 second
TtlArgs == {None, Some(0), Some(1)}

\* the pattern argument of clear_cache: omitted, "", "metadata:", "properties",
\* "e", "111" or "zz"
ClearPatterns ==
    {None,
     Some(<<>>),
     Some(<<"m", "e", "t", "a", "d", "a", "t", "a", ":">>),
     Some(PropertiesKey),
     Some(<<"e">>),
     Some(PropertyId(1)),
     Some(<<"z", "z">>)}

CacheInit ==
    /\ directory = <<>>
    /\ query = <<>>
    /\ \E ttl \in CacheTtls, property_ttl \in PropertyCacheTtls :
          Constructed(DefaultConfig, ttl, property_ttl)

\* what a cache operation leaves alone
CacheFrame ==
    UNCHANGED <<directory, properties, resolver_config, client_config,
                query, max_results, now, remote_calls>>

\* self._cache.get(key)
Lookup(c, key) == IF key \in DOMAIN c THEN Some(c[key]) ELSE None

\* GAClient._set_cached(key, data, ttl)
SetCachedCall(key, data, ttl) ==
    /\ cache' = SetCached(cache, key, data, ttl, cache_ttl, now)
    /\ op' = "set"
    /\ arg' = [key |-> key, data |-> data, ttl |-> ttl]
    /\ UNCHANGED in_flight
    /\ result' = Returned(None)
    /\ CacheFrame

\* GAClient._get_cached(key); arg keeps the entry the call looked up
GetCachedCall(key) ==
    /\ cache' = GetCached(cache, key, now).cache
    /\ op' = "get"
    /\ arg' = [key |-> key, entry |-> Lookup(cache, key)]
    /\ UNCHANGED in_flight
    /\ result' = Returned(GetCached(cache, key, now).value)
    /\ CacheFrame

\* GAClient.clear_cache(pattern)
ClearCacheCall(pattern) ==
    /\ cache' = ClearCache(cache, pattern).cache
    /\ op' = "clear"
    /\ arg' = [pattern |-> pattern]
    /\ UNCHANGED in_flight
    /\ result' = Returned(ClearCache(cache, pattern).count)
    /\ CacheFrame

\* GAClient.get_cache_stats()
CacheStatsCall ==
    /\ op' = "stats"
    /\ arg' = <<>>
    /\ UNCHANGED in_flight
    /\ result' = Returned(CacheStats(cache, now))
    /\ UNCHANGED cache
    /\ CacheFrame

\* a second passes
Tick ==
    /\ now < MaxTime
    /\ now' = now + 1
    /\ op' = "tick"
    /\ arg' = <<>>
    /\ UNCHANGED in_flight
    /\ result' = Returned(None)
    /\ UNCHANGED <<directory, properties, resolver_config, client_config,
                   query, max_results, cache, remote_calls>>

CacheNext ==
    \/ \E key \in CacheKeys, data \in CacheData, ttl \in TtlArgs :
          SetCachedCall(key, data, ttl)
    \/ \E key \in CacheKeys : GetCachedCall(key)
    \/ \E pattern \in ClearPatterns : ClearCacheCall(pattern)
    \/ CacheStatsCall
    \/ Tick

CacheSpec == CacheInit /\ [][CacheNext]_vars

(***************************************************************************)
(* The resolver over the cached client: any sequence of resolve, search    *)
(* and list_all calls, direct discover_properties calls, the resolver's    *)
(* clear_cache, the server's clear_cache tool, the passing of time and     *)
(* changes of the listing at the Admin API.                                *)
(***************************************************************************)
MySiteEntry ==
    [id |-> PropertyId(1), display_name |-> <<"M", "y", " ", "S", "i", "t", "e">>]

AcmeBlogEntry ==
    [id |-> PropertyId(2),
     display_name |-> <<"A", "c", "m", "e", " ", "B", "l", "o", "g">>]

\* the listings the Admin API returns over time: none, one or the other property
FacadeListings == {<<>>, <<MySiteEntry>>, <<AcmeBlogEntry>>}

FacadeQueries == {PropertyId(1), PropertyId(2)}

\* the pattern argument of the clear_cache tool: omitted, "properties" or
\* "metadata:"
ToolPatterns ==
    {None,
     Some(PropertiesKey),
     Some(<<"m", "e", "t", "a", "d", "a", "t", "a", ":">>)}

FacadeInit ==
    /\ directory \in FacadeListings
    /\ query = <<>>
    /\ \E ttl \in CacheTtls, property_ttl \in PropertyCacheTtls :
          Constructed(DefaultConfig, ttl, property_ttl)

Discovered ==
    DiscoverProperties(cache, now, directory, cache_ttl, property_cache_ttl)

\* GAClient.discover_properties()
DiscoverPropertiesCall ==
    /\ Discovered.fetched => remote_calls < MaxFetches
    /\ cache' = Discovered.cache
    /\ remote_calls' =
          IF Discovered.fetched THEN remote_calls + 1 ELSE remote_calls
    /\ result' = Returned(Discovered.value)
    /\ op' = "discover"
    /\ arg' = <<>>
    /\ UNCHANGED in_flight
    /\ UNCHANGED <<directory, properties, resolver_config, client_config,
                   query, max_results, now>>

\* PropertyResolver.clear_cache()
ResolverClearCache ==
    /\ properties' = None
    /\ op' = "resolver_clear"
    /\ arg' = <<>>
    /\ UNCHANGED in_flight
    /\ result' = Returned(None)
    /\ UNCHANGED <<directory, resolver_config, client_config, query,
                   max_results, cache, now, remote_calls>>

ClearsResolverNever(pattern) == FALSE

\* the clear_cache tool: "if pattern is None: resolver.clear_cache()"
ClearsResolver(pattern) == pattern = None

\* the suspended calls after the tool ran: each call keeps a note of a clear of
\* snapshot and cache that completed while it was suspended
OvertakenBy(calls, cleared) ==
    {[call EXCEPT !.cleared = @ \/ cleared] : call \in calls}

\* the clear_cache tool of the server
ClearCacheTool(pattern) ==
    /\ cache' = ClearCache(cache, pattern).cache
    /\ properties' = IF ClearsResolver(pattern) THEN None ELSE properties
    /\ op' = "clear_cache"
    /\ arg' = [pattern |-> pattern]
    /\ in_flight' = OvertakenBy(in_flight, ClearsResolver(pattern))
    /\ result' = Returned(ClearCache(cache, pattern).count)
    /\ UNCHANGED <<directory, resolver_config, client_config, query,
                   max_results, now, remote_calls>>

\* the Admin API comes to return another listing
Relist(listing) ==
    /\ listing # directory
    /\ directory' = listing
    /\ op' = "relist"
    /\ arg' = <<>>
    /\ UNCHANGED in_flight
    /\ result' = Returned(None)
    /\ UNCHANGED <<properties, resolver_config, client_config, query,
                   max_results, cache, now, remote_calls>>

FacadeNext ==
    \/ \E q \in FacadeQueries : ResolveCall(q)
    \/ \E q \in FacadeQueries : SearchCall(q, MaxResultsBound)
    \/ ListAllCall
    \/ DiscoverPropertiesCall
    \/ ResolverClearCache
    \/ \E pattern \in ToolPatterns : ClearCacheTool(pattern)
    \/ Tick
    \/ \E listing \in FacadeListings : Relist(listing)

FacadeSpec == FacadeInit /\ [][FacadeNext]_vars

(***************************************************************************)
(* What the claims speak of, stated over the state a call leaves behind:   *)
(* the snapshot, the canonical query, and which records each stage of      *)
(* resolve matches.                                                        *)
(***************************************************************************)
Snapshot == properties[1]

Resolved == op = "resolve" /\ properties # None /\ Snapshot # <<>>

Hit == result.raised = "none" /\ result.value # None

Absent == result = Returned(None)

Match == result.value[1]

\* canonical(s): lower-case, everything but letters and digits stripped
Canonical(s) == AlnumOnly(Lower(s))

CanonicalQuery == Canonical(query)

TrimmedQuery == Strip(Lower(query))

IdMatches == {i \in DOMAIN Snapshot : Snapshot[i].id = query}

Named(name) == {i \in DOMAIN Snapshot : Snapshot[i].name = name}

NameMatches == Named(CanonicalQuery)

Displayed(lowered) == {i \in DOMAIN Snapshot : Lower(Snapshot[i].display_name) = lowered}

DisplayMatches == Displayed(TrimmedQuery)

\* the entry lists the query: the trimmed lower-case query is one of its
\* aliases, lower-cased
Lists(e) ==
    \E k \in DOMAIN custom_aliases[e].aliases :
        Lower(custom_aliases[e].aliases[k]) = TrimmedQuery

\* the records the entry is about: canonical name equal to the key as written,
\* or display name equal to the key up to case
Owners(e) ==
    {i \in DOMAIN Snapshot :
        \/ Snapshot[i].name = custom_aliases[e].key
        \/ Lower(Snapshot[i].display_name) = Lower(custom_aliases[e].key)}

AliasEntries ==
    IF custom_aliases = <<>> THEN {}
    ELSE {e \in DOMAIN custom_aliases : Lists(e) /\ Owners(e) # {}}

AliasMatches == UNION {Owners(e) : e \in AliasEntries}

Least(S) == CHOOSE i \in S : \A j \in S : i <= j

ExactResult(i, tag) == Returned(Some(PropertyMatch(Snapshot[i], One, tag)))

FuzzyTags == {"fuzzy_name", "fuzzy_display", "partial"}

\* C1: once the snapshot is loaded and not empty, resolve of a record's id
\* returns that very record with confidence 1.0 and the tag exact_id.
C1_ResolveById ==
    Resolved =>
        \A i \in DOMAIN Snapshot :
            Snapshot[i].id = query => result = ExactResult(i, "exact_id")

\* the id of the second record is also the canonical name of the first, and
\* resolve has returned the second record by its id
C1_Witness ==
    /\ Resolved
    /\ Len(Snapshot) = 2
    /\ query = Snapshot[2].id
    /\ Snapshot[1].name = CanonicalQuery
    /\ result = ExactResult(2, "exact_id")

\* C2 as stated: a stage gives the result only if the stages before it match
\* no record, and the record returned by one of the stages exact_id,
\* exact_name, display_name and alias is the first record, in snapshot order,
\* that the stage matches.
C2_FirstInSnapshotOrder ==
    (Resolved /\ result.raised = "none") =>
        IF IdMatches # {} THEN result = ExactResult(Least(IdMatches), "exact_id")
        ELSE IF NameMatches # {} THEN result = ExactResult(Least(NameMatches), "exact_name")
        ELSE IF DisplayMatches # {}
             THEN result = ExactResult(Least(DisplayMatches), "display_name")
        ELSE IF AliasMatches # {} THEN result = ExactResult(Least(AliasMatches), "alias")
        ELSE Absent \/ Match.matched_on \in FuzzyTags

\* C2, amended: the stages are tried in the order exact_id, exact_name,
\* display_name, alias, fuzzy and a stage gives the result only if the stages
\* before it match no record; exact_id, exact_name and display_name return the
\* first record in snapshot order that they match; alias returns the first
\* record in snapshot order among the owners of the first entry of the alias
\* table that lists the query and has an owner.
C2_StageOrder ==
    (Resolved /\ result.raised = "none") =>
        IF IdMatches # {} THEN result = ExactResult(Least(IdMatches), "exact_id")
        ELSE IF NameMatches # {} THEN result = ExactResult(Least(NameMatches), "exact_name")
        ELSE IF DisplayMatches # {}
             THEN result = ExactResult(Least(DisplayMatches), "display_name")
        ELSE IF AliasEntries # {}
             THEN result = ExactResult(Least(Owners(Least(AliasEntries))), "alias")
        ELSE Absent \/ Match.matched_on \in FuzzyTags

\* the alias stage has returned the second record although the first record
\* owns an entry that lists the query too
C2_Witness ==
    /\ Resolved
    /\ Hit
    /\ Match.matched_on = "alias"
    /\ Len(Snapshot) = 2
    /\ Match.property = Snapshot[2]
    /\ 1 \in AliasMatches

\* C3 as stated: when the canonical query is the canonical name of a record,
\* resolve returns a result tagged exact_name.
C3_TaggedExactName ==
    (Resolved /\ NameMatches # {}) => (Hit /\ Match.matched_on = "exact_name")

\* C3, amended: when the canonical query is the canonical name of a record,
\* resolve never reaches the fuzzy stage: it returns a result of confidence
\* 1.0 tagged exact_name, unless the query as written is the id of a record,
\* in which case the result is tagged exact_id.
C3_ExactNameUnlessId ==
    (Resolved /\ NameMatches # {}) =>
        /\ Hit
        /\ Match.confidence = One
        /\ Match.matched_on = IF IdMatches # {} THEN "exact_id" ELSE "exact_name"
        /\ IdMatches = {} => Match.property = Snapshot[Least(NameMatches)]

\* a query that is not canonical as written has been resolved by name
C3_Witness ==
    /\ Resolved
    /\ query # CanonicalQuery
    /\ NameMatches # {}
    /\ Hit
    /\ Match.matched_on = "exact_name"

(***************************************************************************)
(* The scores of the fuzzy stage, record by record.                        *)
(***************************************************************************)
NoExactStage ==
    IdMatches = {} /\ NameMatches = {} /\ DisplayMatches = {} /\ AliasEntries = {}

CanonicalDisplay(i) == Canonical(Snapshot[i].display_name)

\* the name similarity and the display similarity of a record with the
\* canonical query q (one score when the display name was not truncated: the
\* canonical name and the canonical display name are the same string)
Similarities(name, display, q) ==
    IF display = name THEN {Ratio(q, name)} ELSE {Ratio(q, name), Ratio(q, display)}

Contains(name, display, q) == IsSubstring(q, name) \/ IsSubstring(q, display)

\* len(canonical(query)) / max(nameLen, displayLen, 1)
LengthRatio(name, display, q) == Rat(Len(q), Max2(Max2(Len(name), Len(display)), 1))

\* 0.7 + 0.3 * len(canonical(query)) / max(nameLen, displayLen, 1)
Containment(name, display, q) ==
    RAdd(Rat(7, 10), RMul(Rat(3, 10), LengthRatio(name, display, q)))

Highest(scores) == CHOOSE s \in scores : \A t \in scores : RGe(s, t)

\* the largest of the defined scores
EffectiveScoreOf(name, display, q) ==
    Highest(Similarities(name, display, q)
            \cup (IF Contains(name, display, q)
                  THEN {Containment(name, display, q)} ELSE {}))

\* a similarity above the threshold, the containment score when the query is
\* contained and more than 30% of the longer string
AdmissibleOf(name, display, q) ==
    {s \in Similarities(name, display, q) : RGt(s, fuzzy_threshold)}
    \cup (IF Contains(name, display, q) /\ RGt(LengthRatio(name, display, q), Rat(3, 10))
          THEN {Containment(name, display, q)} ELSE {})

\* the effective score the claims give a record
EffectiveScore(i) == EffectiveScoreOf(Snapshot[i].name, CanonicalDisplay(i), CanonicalQuery)

\* the scores resolve admits for a record
Admissible(i) == AdmissibleOf(Snapshot[i].name, CanonicalDisplay(i), CanonicalQuery)

\* the record j, whose admissible scores are scores, does not deserve the
\* result more than the record returned: if it is the record returned, the
\* confidence is one of its scores, and none of its scores is above the
\* confidence, or equal to it in an earlier record
NotBetter(j, scores) ==
    /\ Snapshot[j] = Match.property => Match.confidence \in scores
    /\ \A s \in scores :
          \/ RGt(Match.confidence, s)
          \/ Match.confidence = s /\ \E w \in 1..j : Snapshot[w] = Match.property

\* C4: a result resolve returns from the fuzzy stage (tagged fuzzy_name,
\* fuzzy_display or partial) has a confidence strictly above the threshold.
C4_AboveThreshold ==
    (Resolved /\ Hit /\ Match.matched_on \in FuzzyTags) =>
        RGt(Match.confidence, fuzzy_threshold)

\* C5 as stated: when no stage before it matches, the fuzzy stage returns the
\* record whose effective score (name similarity, display similarity and, for
\* any contained query, the containment score) is the highest of the snapshot,
\* the earliest such record on equal scores.
C5_HighestEffectiveScore ==
    (Resolved /\ NoExactStage /\ Hit) =>
        \E w \in DOMAIN Snapshot :
            /\ Snapshot[w] = Match.property
            /\ \A j \in DOMAIN Snapshot :
                  \/ RGt(EffectiveScore(w), EffectiveScore(j))
                  \/ EffectiveScore(w) = EffectiveScore(j) /\ w <= j

\* C5, amended: when no stage before it matches, the fuzzy stage returns the
\* record with the highest admissible score and that score as confidence, the
\* earliest such record on equal scores, and absence when no record has an
\* admissible score; a name or display similarity is admissible when it is
\* above the threshold, the containment score when the canonical query is
\* contained and longer than 30% of the longer canonical string.
C5_HighestAdmissibleScore ==
    (Resolved /\ NoExactStage /\ result.raised = "none") =>
        IF result.value = None
        THEN \A j \in DOMAIN Snapshot : Admissible(j) = {}
        ELSE /\ Match.matched_on \in FuzzyTags
             /\ \E w \in DOMAIN Snapshot : Snapshot[w] = Match.property
             /\ \A j \in DOMAIN Snapshot : NotBetter(j, Admissible(j))

\* two records reach the same highest score and the first of them is returned
C5_Witness ==
    /\ Resolved
    /\ NoExactStage
    /\ Hit
    /\ Len(Snapshot) = 2
    /\ Match.property = Snapshot[1]
    /\ Match.confidence \in Admissible(2)

(***************************************************************************)
(* The alias stage as the claims read it.                                  *)
(***************************************************************************)
NoStageBeforeAlias == IdMatches = {} /\ NameMatches = {} /\ DisplayMatches = {}

ClaimedLists(e) ==
    \E k \in DOMAIN custom_aliases[e].aliases :
        Canonical(custom_aliases[e].aliases[k]) = CanonicalQuery

ClaimedOwners(e) ==
    {i \in DOMAIN Snapshot :
        \/ Lower(Snapshot[i].name) = Lower(custom_aliases[e].key)
        \/ Lower(Snapshot[i].display_name) = Lower(custom_aliases[e].key)}

ClaimedEntries ==
    {e \in DOMAIN custom_aliases : ClaimedLists(e) /\ ClaimedOwners(e) # {}}

PrimarySite == <<"P", "r", "i", "m", "a", "r", "y", " ", "S", "i", "t", "e">>

MySite == <<"m", "y", "s", "i", "t", "e">>

\* customAliases = {"mysite": ["primary site", "main"]}, a record whose
\* canonical name is mysite, and the query "Primary Site"
AliasScenario ==
    /\ Resolved
    /\ custom_aliases = <<MySiteAliases>>
    /\ query = PrimarySite
    /\ \E i \in DOMAIN Snapshot : Snapshot[i].name = MySite

\* C6 as stated: when stages 1-3 miss, resolve returns confidence 1.0 and the
\* tag alias for the first entry of the alias table with an alias whose
\* canonical form is the canonical query and an owner whose canonical name or
\* display name equals the key up to case.
C6_CanonicalAlias ==
    (Resolved /\ NoStageBeforeAlias /\ ClaimedEntries # {}) =>
        /\ Hit
        /\ Match.confidence = One
        /\ Match.matched_on = "alias"
        /\ \E i \in ClaimedOwners(Least(ClaimedEntries)) : Match.property = Snapshot[i]

\* C6, amended: when stages 1-3 miss, resolve returns confidence 1.0 and the
\* tag alias for the first entry of the alias table that lists the query (the
\* lower-cased, trimmed query equals one of its aliases lower-cased) and has an
\* owner (a record whose canonical name equals the key as written or whose
\* display name equals the key up to case); the record is the first owner in
\* snapshot order; no other result is tagged alias.  With customAliases =
\* {"mysite": ["primary site", "main"]} and a record whose canonical name is
\* mysite, resolve("Primary Site") returns that record tagged alias.
C6_ListedAlias ==
    /\ (Resolved /\ NoStageBeforeAlias /\ result.raised = "none") =>
          IF AliasEntries # {}
          THEN result = ExactResult(Least(Owners(Least(AliasEntries))), "alias")
          ELSE Absent \/ Match.matched_on # "alias"
    /\ AliasScenario =>
          /\ Hit
          /\ Match.property.name = MySite
          /\ Match.confidence = One
          /\ Match.matched_on = "alias"

\* the scenario of the claim has been resolved
C6_Witness == AliasScenario /\ Hit /\ Match.matched_on = "alias"

\* C7: whatever the query (its canonical form may be empty) and the loaded
\* snapshot (display names may be empty), resolve returns a match with a record
\* of the snapshot or absence, and raises nothing.
C7_NeverRaises ==
    (op = "resolve") =>
        /\ result.raised = "none"
        /\ \/ Absent
           \/ /\ \E i \in DOMAIN Snapshot : Match.property = Snapshot[i]
              /\ RGe(Match.confidence, Zero) /\ RGe(One, Match.confidence)

\* a query whose canonical form is empty has been resolved to absence over a
\* snapshot that holds records
C7_Witness ==
    /\ Resolved
    /\ CanonicalQuery = <<>>
    /\ query # <<>>
    /\ Absent

(***************************************************************************)
(* The end-to-end scenario: two records, the default threshold.            *)
(***************************************************************************)
AcmeBlogRecord ==
    [id           |-> <<"1", "1", "1">>,
     name         |-> <<"a", "c", "m", "e", "b", "l", "o", "g">>,
     display_name |-> <<"A", "c", "m", "e", " ", "B", "l", "o", "g">>]

AcmeShopRecord ==
    [id           |-> <<"2", "2", "2">>,
     name         |-> <<"a", "c", "m", "e", "s", "h", "o", "p">>,
     display_name |-> <<"A", "c", "m", "e", " ", "S", "h", "o", "p">>]

\* resolve("acme blog") over [acmeblog, acmeshop] with threshold 0.6
AcmeScenario ==
    /\ op = "resolve"
    /\ properties = Some(<<AcmeBlogRecord, AcmeShopRecord>>)
    /\ fuzzy_threshold = Rat(6, 10)
    /\ query = <<"a", "c", "m", "e", " ", "b", "l", "o", "g">>

\* C8 as stated: in the scenario resolve returns the record 111 with a
\* confidence above 0.6 and the tag fuzzy_name or fuzzy_display.
C8_ScenarioFuzzy ==
    AcmeScenario =>
        /\ Hit
        /\ Match.property.id = AcmeBlogRecord.id
        /\ RGt(Match.confidence, Rat(6, 10))
        /\ Match.matched_on \in {"fuzzy_name", "fuzzy_display"}

\* C8, amended: in the scenario resolve returns the record 111 with confidence
\* 1.0 and the tag exact_name, because the canonical query acmeblog is the
\* canonical name of that record.
C8_ScenarioExactName ==
    AcmeScenario => result = Returned(Some(PropertyMatch(AcmeBlogRecord, One, "exact_name")))

\* the scenario has been resolved to the record 111
C8_Witness == AcmeScenario /\ Hit /\ Match.property.id = AcmeBlogRecord.id

(***************************************************************************)
(* search: the records it includes and the entry it gives each.            *)
(***************************************************************************)
Searched == op = "search" /\ properties # None /\ result.raised = "none"

Results == result.value

ExactRecord(i) == Snapshot[i].id = query \/ Snapshot[i].name = CanonicalQuery

ExpectedConfidence(i) == IF ExactRecord(i) THEN One ELSE EffectiveScore(i)

Included(i) == ExactRecord(i) \/ RGt(EffectiveScore(i), Rat(3, 10))

Tagged(prop, confidence) ==
    PropertyMatch(prop, confidence, IF confidence = One THEN "exact" ELSE "fuzzy")

Expected(i) == Tagged(Snapshot[i], ExpectedConfidence(i))

Returns(i) == \E k \in DOMAIN Results : Results[k].property = Snapshot[i]

EntryOf(i) == Results[CHOOSE k \in DOMAIN Results : Results[k].property = Snapshot[i]]

IndexOf(prop) == CHOOSE i \in DOMAIN Snapshot : Snapshot[i] = prop

\* C9: with max_results no smaller than the snapshot (nothing is cut off), the
\* result of search holds one entry for every record whose id is the query or
\* whose canonical name is the canonical query, with confidence 1.0 and the
\* tag exact, one entry for every other record whose best score is above 0.3,
\* with that score, and nothing else; an entry is tagged exact if its
\* confidence is 1.0 and fuzzy otherwise.
C9_SearchIncludes ==
    (Searched /\ max_results >= Len(Snapshot)) =>
        /\ \A k, l \in DOMAIN Results : Results[k].property = Results[l].property => k = l
        /\ \A k \in DOMAIN Results : \E i \in DOMAIN Snapshot : Results[k].property = Snapshot[i]
        /\ \A i \in DOMAIN Snapshot :
              IF Returns(i)
              THEN /\ EntryOf(i) = Expected(i)
                   /\ ExactRecord(i) \/ RGt(EntryOf(i).confidence, Rat(3, 10))
              ELSE ~Included(i)

\* an untruncated result that holds an exact record of the snapshot, placed
\* first although it is the second record, and a record included by its score
C9_Witness ==
    /\ Searched
    /\ Len(Snapshot) = 2
    /\ max_results = 2
    /\ Len(Results) = 2
    /\ Results[1] = PropertyMatch(Snapshot[2], One, "exact")
    /\ ExactRecord(2)
    /\ Results[2].matched_on = "fuzzy"

\* the record i, which earns confidence, is not returned: either it is not
\* included at all, or the result is full and each of its entries ranks before
\* the record
CutOff(i, confidence) ==
    (ExactRecord(i) \/ RGt(confidence, Rat(3, 10))) =>
        /\ Len(Results) = max_results
        /\ \A k \in DOMAIN Results :
              \/ RGt(Results[k].confidence, confidence)
              \/ /\ Results[k].confidence = confidence
                 /\ IndexOf(Results[k].property) < i

\* C10: for max_results >= 0 the result of search is in order of non-increasing
\* confidence, entries of equal confidence are in snapshot order, there are at
\* most max_results entries, and they are the first entries of the ranking of
\* all included records: every entry is the one search gives its record, and an
\* included record left out ranks behind every entry of a full result.
C10_RankedPrefix ==
    (Searched /\ max_results >= 0) =>
        /\ Len(Results) <= max_results
        /\ \A k, l \in DOMAIN Results :
              k < l =>
                 /\ RGe(Results[k].confidence, Results[l].confidence)
                 /\ Results[k].confidence = Results[l].confidence =>
                       IndexOf(Results[k].property) < IndexOf(Results[l].property)
        /\ \A i \in DOMAIN Snapshot :
              IF Returns(i)
              THEN EntryOf(i) = Expected(i)
              ELSE CutOff(i, ExpectedConfidence(i))

\* two records of equal confidence are included and max_results = 1 keeps the
\* one that comes first in the snapshot
C10_Witness ==
    /\ Searched
    /\ Len(Snapshot) = 2
    /\ max_results = 1
    /\ Len(Results) = 1
    /\ Results[1].property = Snapshot[1]
    /\ Included(2)
    /\ ExpectedConfidence(2) = Results[1].confidence

\* the snapshot holds the single record "My Site" and the query is "me", under
\* the default threshold
MeScenario ==
    /\ properties # None
    /\ Len(Snapshot) = 1
    /\ Snapshot[1].display_name = <<"M", "y", " ", "S", "i", "t", "e">>
    /\ query = <<"m", "e">>
    /\ fuzzy_threshold = DefaultThreshold

\* C11: under the default threshold 0.6 there are a snapshot and a query for
\* which search returns a record with a score above 0.3 while resolve on the
\* same snapshot and query reports absence: on the snapshot ["My Site"] a search
\* for "me" with room for one result returns the record, and resolve of "me" on
\* that snapshot returns nothing.
C11_SearchWithoutResolve ==
    (Searched /\ MeScenario /\ max_results >= 1) =>
        /\ Len(Results) = 1
        /\ Results[1].property = Snapshot[1]
        /\ RGt(Results[1].confidence, Rat(3, 10))
        /\ RLt(Results[1].confidence, fuzzy_threshold)
        /\ ResolveIn(Snapshot, fuzzy_threshold, custom_aliases, query)
              = Returned(None)

\* the search for "me" on ["My Site"] has returned the record at 0.5
C11_Witness ==
    /\ Searched
    /\ MeScenario
    /\ max_results = 1
    /\ Results = <<PropertyMatch(Snapshot[1], Rat(1, 2), "fuzzy")>>
    /\ ResolveIn(Snapshot, fuzzy_threshold, custom_aliases, query)
          = Returned(None)

(***************************************************************************)
(* The cache claims, stated over the steps of CacheSpec: op' names the     *)
(* operation a step performs.                                              *)
(***************************************************************************)
\* the entries under the keys other than k are the same before and after
SameExcept(k) ==
    /\ DOMAIN cache' \ {k} = DOMAIN cache \ {k}
    /\ \A j \in DOMAIN cache \ {k} : cache'[j] = cache[j]

Present(k) == k \in DOMAIN cache

Expired(k) == now >= cache[k].expires_at

\* get(k) on a present entry read before its expiry returns the stored value
\* and changes nothing; on a present entry read at or after its expiry it
\* removes that entry alone and returns absent; on a missing key it returns
\* absent and changes nothing
GetStep(k) ==
    IF Present(k) /\ ~Expired(k)
    THEN /\ result' = Returned(Some(cache[k].data))
         /\ cache' = cache
    ELSE /\ result' = Returned(None)
         /\ k \notin DOMAIN cache'
         /\ SameExcept(k)
         /\ Present(k) =>
               Cardinality(DOMAIN cache') = Cardinality(DOMAIN cache) - 1

\* an entry disappears only by a clear or, once expired, by a get on its key
RemovedOnlyByGetOrClear ==
    \A k \in DOMAIN cache \ DOMAIN cache' :
       \/ op' = "clear"
       \/ op' = "get" /\ arg'.key = k /\ Expired(k)

\* an entry appears or changes only by a set on its key, and then holds the
\* value of that set
StoredOnlyBySet ==
    \A k \in DOMAIN cache' :
       (~Present(k) \/ cache'[k] # cache[k]) =>
          op' = "set" /\ arg'.key = k /\ cache'[k].data = arg'.data

\* C12: after any sequence of set, get and clear operations and clock advances,
\* get(k) returns the most recently stored value exactly when the entry is
\* present and the read time is before its expiry; when the entry is present
\* and expired (read time >= expiry) the get removes exactly that entry (the
\* total of stats drops by one) and returns absent; and expired entries are
\* never removed other than by a get on their key or by a clear.
C12_GetReadsAndEvicts ==
    [][/\ op' = "get" => GetStep(arg'.key)
       /\ RemovedOnlyByGetOrClear
       /\ StoredOnlyBySet]_vars

\* a get has found its entry expired, returned absent and removed it, while an
\* expired entry under another key is still there
C12_Witness ==
    /\ op = "get"
    /\ arg.entry # None
    /\ now >= arg.entry[1].expires_at
    /\ result = Returned(None)
    /\ arg.key \notin DOMAIN cache
    /\ \E other \in DOMAIN cache : Expired(other)

\* the ttl a set is to apply by its signature: the one passed, the default
\* when none is passed
PassedTtl(ttl) == IF ttl = None THEN cache_ttl ELSE ttl[1]

\* C13: set(key, value, ttl) stores the value with expires_at = now + ttl for
\* every ttl the caller passes (the default is used only when the ttl is
\* omitted), and overwrites an existing entry: value and expiry are those of
\* the last set.
C13_SetStoresUnderPassedTtl ==
    [][op' = "set" =>
          /\ arg'.key \in DOMAIN cache'
          /\ cache'[arg'.key] = CacheEntry(arg'.data, now + PassedTtl(arg'.ttl))
          /\ SameExcept(arg'.key)]_vars

\* the pattern occurs in the key as a run of consecutive characters
Occurs(pattern, key) ==
    \E i \in 0..Len(key) :
       /\ i + Len(pattern) <= Len(key)
       /\ \A j \in 1..Len(pattern) : key[i + j] = pattern[j]

\* the keys clear(pattern) is to remove
ToRemove(pattern) ==
    IF pattern = None
    THEN DOMAIN cache
    ELSE {k \in DOMAIN cache : Occurs(pattern[1], k)}

\* C14: clear without a pattern removes every entry and returns the number of
\* entries there were; clear(pattern) removes exactly the entries whose key
\* contains the pattern as a substring, returns the number removed and leaves
\* every other entry unchanged (clear("metadata:") leaves "properties").
C14_ClearRemovesMatching ==
    [][op' = "clear" =>
          /\ DOMAIN cache' = DOMAIN cache \ ToRemove(arg'.pattern)
          /\ \A k \in DOMAIN cache' : cache'[k] = cache[k]
          /\ result' = Returned(Cardinality(ToRemove(arg'.pattern)))]_vars

\* clear("metadata:") has removed one entry and left the one under "properties"
C14_Witness ==
    /\ op = "clear"
    /\ arg.pattern = Some(<<"m", "e", "t", "a", "d", "a", "t", "a", ":">>)
    /\ result = Returned(1)
    /\ DOMAIN cache = {PropertiesKey}

\* C15: stats() leaves the cache unchanged and reports total (the number of
\* entries), valid (the entries with now < expires_at) and expired = total -
\* valid.
C15_StatsCounts ==
    [][op' = "stats" =>
          /\ cache' = cache
          /\ result'.raised = "none"
          /\ result'.value.total_entries = Cardinality(DOMAIN cache)
          /\ result'.value.valid_entries =
                Cardinality({k \in DOMAIN cache : now < cache[k].expires_at})
          /\ result'.value.expired_entries =
                result'.value.total_entries - result'.value.valid_entries]_vars

\* stats has counted two entries, one of them read exactly at its expiry
C15_Witness ==
    /\ op = "stats"
    /\ result.value.total_entries = 2
    /\ result.value.valid_entries = 1
    /\ result.value.expired_entries = 1
    /\ \E k \in DOMAIN cache : cache[k].expires_at = now

(***************************************************************************)
(* The claims on the resolver over the cached client, stated over the      *)
(* steps of FacadeSpec.                                                    *)
(***************************************************************************)
\* the step is a resolve, search or list_all call
IsCall == op' \in {"resolve", "search", "list_all"}

\* the step calls discover_properties: directly, or from a resolver call that
\* finds the snapshot not loaded
CallsDirectorySource == op' = "discover" \/ (IsCall /\ properties = None)

\* the cached directory entry is there and the clock is before its expiry
DirectoryEntryValid ==
    /\ PropertiesKey \in DOMAIN cache
    /\ now < cache[PropertiesKey].expires_at

\* within the property-list TTL window of the cached fetch (an entry stored
\* under a positive property TTL expires when that window ends)
InTtlWindow == property_cache_ttl > 0 /\ DirectoryEntryValid

\* C16: after one successful directory fetch, every further fetchProperties
\* call through the cache within the property-list TTL window, with no clear in
\* between, is served from the cache and issues no remote call, whatever the
\* fetched result was, an empty property list included.
C16_ServedFromCacheInWindow ==
    [][(CallsDirectorySource /\ InTtlWindow) =>
          remote_calls' = remote_calls]_vars

\* C17: the snapshot is loaded at most once between construction (or a
\* clear_cache) and the next clear_cache: the first resolve, search or list_all
\* on a resolver whose snapshot is not loaded calls the Directory Source and
\* leaves the snapshot loaded with what that call returned (the cached list, or
\* the list just fetched), an empty list included; a call on a loaded resolver
\* makes no Directory Source call (cache and remote calls are untouched) and
\* keeps the snapshot; and the snapshot changes in no other step than a first
\* call or a clear.
C17_LoadedOnce ==
    [][/\ (IsCall /\ properties = None) =>
             /\ properties' # None
             /\ properties'[1] =
                   IF remote_calls' = remote_calls
                   THEN cache[PropertiesKey].data
                   ELSE BuildProperties(directory)
       /\ (IsCall /\ properties # None) =>
             /\ properties' = properties
             /\ cache' = cache
             /\ remote_calls' = remote_calls
       /\ properties' # properties =>
             \/ IsCall /\ properties = None
             \/ properties' = None /\ op' \in {"resolver_clear", "clear_cache"}]_vars

\* list_all has been called at time 1 or later on a resolver loaded with the
\* empty list that was fetched at time 0: the one fetch is the only one (a call
\* to the Directory Source at this time would have fetched again and stored an
\* entry expiring later)
C17_Witness ==
    /\ op = "list_all"
    /\ properties = Some(<<>>)
    /\ result = Returned(<<>>)
    /\ now >= 1
    /\ remote_calls = 1
    /\ PropertiesKey \in DOMAIN cache
    /\ cache[PropertiesKey].expires_at < now + property_cache_ttl
    /\ property_cache_ttl > 0

\* C18: the resolver's clear_cache() sets the snapshot to not loaded and leaves
\* every entry of the backing cache unchanged; the next call reloads through
\* the cache, and while the cached directory entry is still valid that reload
\* issues no remote fetch.
C18_ReloadWithoutFetch ==
    [][/\ op' = "resolver_clear" => (properties' = None /\ cache' = cache)
       /\ (IsCall /\ properties = None /\ DirectoryEntryValid) =>
             /\ remote_calls' = remote_calls
             /\ properties' = Some(cache[PropertiesKey].data)]_vars

\* both layers are cleared: no snapshot and no cached directory entry
BothCleared == properties = None /\ PropertiesKey \notin DOMAIN cache

\* C19: when both layers are cleared (the clear_cache tool without a pattern
\* clears both) the next call performs a new remote fetch and the snapshot
\* afterwards is exactly the fetched sequence: nothing of an earlier snapshot
\* is merged in, and a resolve answers from the fetched records only.
C19_FreshAfterBothCleared ==
    [][/\ (op' = "clear_cache" /\ arg'.pattern = None) =>
             (properties' = None /\ DOMAIN cache' = {})
       /\ (IsCall /\ BothCleared) =>
             /\ remote_calls' = remote_calls + 1
             /\ properties' = Some(BuildProperties(directory))
             /\ cache'[PropertiesKey].data = BuildProperties(directory)
             /\ (op' = "resolve" /\ result'.value # None) =>
                   \E i \in DOMAIN directory :
                      result'.value[1].property.id = directory[i].id]_vars

\* the second fetch of a behaviour has just been made by a resolve of "111",
\* the snapshot is the one record now listed, "Acme Blog", and the resolve
\* reports absence
C19_Witness ==
    /\ op = "resolve"
    /\ query = PropertyId(1)
    /\ remote_calls = 2
    /\ directory = <<AcmeBlogEntry>>
    /\ properties = Some(BuildProperties(directory))
    /\ result = Returned(None)
    /\ PropertiesKey \in DOMAIN cache
    /\ cache[PropertiesKey] =
          CacheEntry(BuildProperties(directory),
                     now + TtlOr(Some(property_cache_ttl), cache_ttl))

\* C20: the snapshot is refreshed wholesale on cache expiry: once the backing
\* cache entry has expired, the next call on an already loaded resolver works
\* on a freshly fetched snapshot.
C20_RefreshedOnExpiry ==
    [][(/\ IsCall
        /\ properties # None
        /\ PropertiesKey \in DOMAIN cache
        /\ now >= cache[PropertiesKey].expires_at) =>
          /\ remote_calls' = remote_calls + 1
          /\ properties' = Some(BuildProperties(directory))]_vars

(***************************************************************************)
(* Claims on the results of resolve and search as a whole.                 *)
(***************************************************************************)
\* the score lies in [0, 1]
InUnit(score) == RGe(score, Zero) /\ RGe(One, score)

ResolveTags == {"exact_id", "exact_name", "display_name", "alias"} \cup FuzzyTags

SearchTags == {"exact", "fuzzy"}

SearchAll == SearchIn(Snapshot, query, Len(Snapshot)).value

ContainedIn(prop, matches) ==
    \E k \in DOMAIN matches : matches[k].property = prop

ThresholdArgs == {None} \cup {Some(t) : t \in Thresholds}

\* the custom_aliases argument: omitted, or any of the alias tables
AliasArgs == {None} \cup {Some(a) : a \in AliasTables}

ExplicitQueries ==
    {<<"a", "c", "m", "e", " ", "b", "l", "o", "g">>,
     <<"m", "a", "i", "n", " ">>}

\* PropertyResolver.__init__ with arguments, over a constructed client
ConstructedWith(arg_threshold, arg_aliases, config) ==
    /\ properties = None
    /\ fuzzy_threshold = ThresholdOr(arg_threshold, config.fuzzy_threshold)
    /\ custom_aliases = AliasesOr(arg_aliases, config.custom_aliases)
    /\ cache = EmptyCache
    /\ cache_ttl = DefaultCacheTtl
    /\ property_cache_ttl = DefaultPropertyCacheTtl
    /\ now = 0
    /\ remote_calls = 0
    /\ op = "none"
    /\ max_results = 0
    /\ result = Returned(None)
    /\ arg = [fuzzy_threshold |-> arg_threshold,
              custom_aliases |-> arg_aliases,
              config |-> config]
    /\ in_flight = {}

ExplicitInit ==
    /\ directory \in FacadeListings
    /\ query \in ExplicitQueries
    /\ \E config \in Configs, arg_threshold \in ThresholdArgs,
          arg_aliases \in AliasArgs :
          ConstructedWith(arg_threshold, arg_aliases, config)

ExplicitSpec == ExplicitInit /\ [][Next]_vars

\* the value the constructor is to take: the argument when one is passed, the
\* configured value when it is omitted
Passed(argument, configured) == IF argument = None THEN configured ELSE argument[1]

PassedThreshold == Passed(arg.fuzzy_threshold, arg.config.fuzzy_threshold)

PassedAliases == Passed(arg.custom_aliases, arg.config.custom_aliases)

\* C26: a resolver constructed with an explicit fuzzy_threshold in [0, 1] (0.0
\* included) or an explicit custom_aliases table (the empty table included)
\* holds exactly those values and resolves with them; the configured values
\* are used only when the argument is not provided.
C26_ExplicitArgumentsUsed ==
    [][op = "none" =>
          /\ fuzzy_threshold = PassedThreshold
          /\ custom_aliases = PassedAliases
          /\ op' = "resolve" =>
                result' = ResolveIn(properties'[1], PassedThreshold,
                                    PassedAliases, query')]_vars

\* the clear_cache tool has just returned, and its pattern was omitted or
\* matches the key of the property list
ClearedPropertyList ==
    /\ op = "clear_cache"
    /\ (arg.pattern = None \/ Occurs(arg.pattern[1], PropertiesKey))

\* C24: the clear_cache tool forces fresh retrieval: after clear_cache(pattern)
\* has returned, for an omitted pattern and for any pattern that matches the
\* key of the property list ("properties"), the next resolve, search or
\* list_all works on a property list newly fetched from the Admin API and not
\* on the list held before the call.
C24_ClearForcesFreshList ==
    [][(ClearedPropertyList /\ IsCall) =>
          /\ remote_calls' = remote_calls + 1
          /\ properties' = Some(BuildProperties(directory))]_vars

(***************************************************************************)
(* The resolver when requests to the Admin API can fail: next to the calls *)
(* whose load succeeds there are the calls whose fetch raises.             *)
(***************************************************************************)
\* what leaves discover_properties when a request fails: a GoogleAPIError is
\* wrapped in GAClientError, any other exception of the request (the
\* discovery client raises HttpError) passes as it is
ProviderErrors == {"GAClientError", "HttpError"}

SnapshotEmptyAfterFailure(props) == Some(<<>>)

\* self._properties = await self.client.discover_properties(): the assignment
\* does not take place when the call raises
SnapshotAfterFailure(props) == props

\* _ensure_properties_loaded when the snapshot is not loaded, the cache has no
\* usable list and the fetch raises: the cache lookup has been made, nothing
\* is stored
LoadFails(error) ==
    /\ properties = None
    /\ ~CacheHit(GetCached(cache, PropertiesKey, now))
    /\ remote_calls < MaxFetches
    /\ properties' = SnapshotAfterFailure(properties)
    /\ cache' = GetCached(cache, PropertiesKey, now).cache
    /\ remote_calls' = remote_calls + 1
    /\ result' = Raised(error)
    /\ arg' = <<>>
    /\ UNCHANGED in_flight
    /\ UNCHANGED <<directory, resolver_config, client_config, now>>

\* PropertyResolver.resolve(q), the load raising
ResolveFails(q, error) ==
    /\ LoadFails(error)
    /\ op' = "resolve"
    /\ query' = q
    /\ UNCHANGED max_results

\* PropertyResolver.search(q, m), the load raising
SearchFails(q, m, error) ==
    /\ LoadFails(error)
    /\ op' = "search"
    /\ query' = q
    /\ max_results' = m

\* PropertyResolver.list_all(), the load raising
ListAllFails(error) ==
    /\ LoadFails(error)
    /\ op' = "list_all"
    /\ UNCHANGED <<query, max_results>>

OutageNext ==
    \/ \E q \in FacadeQueries : ResolveCall(q)
    \/ \E q \in FacadeQueries : SearchCall(q, MaxResultsBound)
    \/ ListAllCall
    \/ \E q \in FacadeQueries, error \in ProviderErrors : ResolveFails(q, error)
    \/ \E q \in FacadeQueries, error \in ProviderErrors :
          SearchFails(q, MaxResultsBound, error)
    \/ \E error \in ProviderErrors : ListAllFails(error)
    \/ ResolverClearCache
    \/ Tick

OutageSpec == FacadeInit /\ [][OutageNext]_vars

\* the call of the step has raised
CallRaises == IsCall /\ result'.raised # "none"

\* the call before the step has raised
CallRaised == op \in {"resolve", "search", "list_all"} /\ result.raised # "none"

\* C21: when the Directory Source fails during a load, resolve, search and
\* list_all pass the provider's error on to their caller after exactly one
\* fetch attempt (no retry), the snapshot stays not loaded, no cache entry is
\* written, and the next call attempts the fetch again.
C21_FailurePropagates ==
    [][/\ CallRaises =>
             /\ result'.raised \in ProviderErrors
             /\ remote_calls' = remote_calls + 1
             /\ properties = None
             /\ properties' = None
             /\ \A k \in DOMAIN cache' : k \in DOMAIN cache /\ cache'[k] = cache[k]
       /\ (CallRaised /\ IsCall) => remote_calls' = remote_calls + 1]_vars

\* a resolve has raised at its load for the second time in a row: two fetch
\* attempts have been made, no snapshot is loaded and nothing is cached
C21_Witness ==
    /\ op = "resolve"
    /\ result.raised = "GAClientError"
    /\ remote_calls = 2
    /\ properties = None
    /\ cache = EmptyCache
    /\ now = 0


\* ---------------------------------------------------------------------------
\* Configuration from the environment: Config.from_env, then the resolver
\* ---------------------------------------------------------------------------

\* GA_FUZZY_THRESHOLD: not set, a number, or a text float() cannot read
ThresholdSettings ==
    {[kind |-> "unset", value |-> Zero],
     [kind |-> "text", value |-> Zero],
     [kind |-> "number", value |-> Zero],
     [kind |-> "number", value |-> DefaultThreshold],
     [kind |-> "number", value |-> One],
     [kind |-> "number", value |-> Rat(3, 2)]}

\* an entry of the JSON object whose value is the number 5, not a list
MySiteNumber == [key |-> <<"m", "y", "s", "i", "t", "e">>, value |-> 5]

ZzAliases ==
    [key |-> <<"a", "c", "m", "e", "b", "l", "o", "g">>,
     aliases |-> << <<"z", "z">> >>]

\* GA_PROPERTY_ALIASES: not set, a text json.loads cannot read, a JSON array, or
\* a JSON object with the entries given
AliasSettings ==
    {[kind |-> "unset", value |-> <<>>],
     [kind |-> "text", value |-> <<>>],
     [kind |-> "array", value |-> <<>>],
     [kind |-> "object", value |-> <<>>],
     [kind |-> "object", value |-> <<MySiteAliases>>],
     [kind |-> "object", value |-> <<MySiteNumber>>],
     [kind |-> "object", value |-> <<ZzAliases, MySiteNumber>>],
     [kind |-> "object", value |-> <<MySiteNumber, ZzAliases>>]}

\* Config.from_env: fuzzy_threshold
ThresholdFromEnv(setting) ==
    CASE setting.kind = "unset" -> Returned(DefaultThreshold)
      [] setting.kind = "text" -> Raised("ConfigError")
      [] OTHER -> IF RGe(setting.value, Zero) /\ RGe(One, setting.value)
                  THEN Returned(setting.value)
                  ELSE Raised("ConfigError")

\* Config.from_env: custom_aliases
AliasesFromEnv(setting) ==
    CASE setting.kind = "unset" -> Returned(<<>>)
      [] setting.kind = "object" -> Returned(setting.value)
      [] OTHER -> Raised("ConfigError")

\* Config.from_env over the two settings
FromEnv(threshold_setting, alias_setting) ==
    IF \/ ThresholdFromEnv(threshold_setting).raised # "none"
       \/ AliasesFromEnv(alias_setting).raised # "none"
    THEN Raised("ConfigError")
    ELSE Returned([fuzzy_threshold |-> ThresholdFromEnv(threshold_setting).value,
                   custom_aliases |-> AliasesFromEnv(alias_setting).value])

\* the arguments of PropertyResolver.__init__: omitted, or a value passed by the
\* caller
ConfigThresholdArgs == {None, Some(Rat(3, 2))}

ConfigAliasArgs == {None, Some(<<MySiteNumber>>)}

ConfigQueries ==
    {<<"z", "z">>,
     <<"m", "a", "i", "n", " ">>,
     <<"m", "y", " ", "s", "i", "t", "e">>}

\* the resolvers that come to exist: from_env returned and __init__ ran
ConfigInit ==
    /\ directory \in FacadeListings
    /\ query \in ConfigQueries
    /\ \E threshold_setting \in ThresholdSettings, alias_setting \in AliasSettings,
          arg_threshold \in ConfigThresholdArgs, arg_aliases \in ConfigAliasArgs :
          /\ FromEnv(threshold_setting, alias_setting).raised = "none"
          /\ ConstructedWith(arg_threshold, arg_aliases,
                             FromEnv(threshold_setting, alias_setting).value)

ConfigSpec == ConfigInit /\ [][Next]_vars

\* C23: no resolver runs a query with a threshold outside [0, 1] or with an alias
\* table that has a value which is not a list of strings, and no query fails
\* over the alias table: such settings are rejected before a resolver exists.
C23_MalformedRejected ==
    op \in {"resolve", "search"} =>
        /\ InUnit(fuzzy_threshold)
        /\ NotIterable(custom_aliases) = {}
        /\ result.raised = "none"


(***************************************************************************)
(* Concurrent calls on one event loop.  The directory fetch is a           *)
(* suspending operation: a call that has to ask the Admin API sends its    *)
(* request and is suspended, other calls and the clear_cache tool run, and *)
(* the call resumes when the response is there.  Everything else a call    *)
(* does has no suspension point and is one step.  The clock stands still:  *)
(* no entry expires while the calls interleave.                            *)
(***************************************************************************)
MaxCalls == 2

CallIds == 1..MaxCalls

CallKinds == {"resolve", "search"}

Suspended == {call.id : call \in in_flight}

SnapshotLoadedWhileFetching(props) == Some(<<>>)

\* "self._properties = await ...": the field is assigned when the await
\* returns and keeps its value while the call is suspended
SnapshotWhileFetching(props) == props

\* _ensure_properties_loaded and discover_properties up to the request: the
\* snapshot is None and the cache has no list, so the request is sent and the
\* call is suspended; the response is the listing of that moment
IssueCall(id, kind, q) ==
    /\ id \notin Suspended
    /\ properties = None
    /\ ~CacheHit(GetCached(cache, PropertiesKey, now))
    /\ remote_calls < MaxFetches
    /\ cache' = GetCached(cache, PropertiesKey, now).cache
    /\ remote_calls' = remote_calls + 1
    /\ in_flight' = in_flight \cup {[id |-> id, kind |-> kind, query |-> q,
                                     response |-> directory, cleared |-> FALSE]}
    /\ op' = "await"
    /\ arg' = <<>>
    /\ result' = Returned(None)
    /\ properties' = SnapshotWhileFetching(properties)
    /\ UNCHANGED <<directory, resolver_config, client_config,
                   query, max_results, now>>

\* the answer of a call of the kind given, from the snapshot given
Answer(kind, props, q) ==
    IF kind = "resolve"
    THEN ResolveIn(props, fuzzy_threshold, custom_aliases, q)
    ELSE SearchIn(props, q, MaxResultsBound)

\* the response is there: discover_properties stores the list in the cache and
\* returns it, _ensure_properties_loaded assigns it, and the call answers
ResumeCall(call) ==
    /\ call \in in_flight
    /\ cache' = SetCached(cache, PropertiesKey, BuildProperties(call.response),
                          Some(property_cache_ttl), cache_ttl, now)
    /\ properties' = Some(BuildProperties(call.response))
    /\ in_flight' = in_flight \ {call}
    /\ result' = Answer(call.kind, BuildProperties(call.response), call.query)
    /\ op' = call.kind
    /\ query' = call.query
    /\ max_results' = IF call.kind = "search" THEN MaxResultsBound ELSE max_results
    /\ arg' = <<>>
    /\ UNCHANGED <<directory, resolver_config, client_config, now, remote_calls>>

\* a call that finds the snapshot loaded, or the list in the cache, is never
\* suspended
ReturnsAtOnce == ~Loaded.fetched

AsyncQueries == {PropertyId(1)}

\* the pattern argument of the clear_cache tool: omitted, or "properties"
AsyncPatterns == {None, Some(PropertiesKey)}

AsyncNext ==
    \/ \E id \in CallIds, kind \in CallKinds, q \in AsyncQueries :
          IssueCall(id, kind, q)
    \/ \E call \in in_flight : ResumeCall(call)
    \/ \E q \in AsyncQueries : ReturnsAtOnce /\ ResolveCall(q)
    \/ \E q \in AsyncQueries : ReturnsAtOnce /\ SearchCall(q, MaxResultsBound)
    \/ \E pattern \in AsyncPatterns : ClearCacheTool(pattern)
    \/ \E listing \in FacadeListings : Relist(listing)

AsyncSpec == FacadeInit /\ [][AsyncNext]_vars


====
